---- MODULE Spec2Model ----
(***************************************************************************)
(* Model of the multi-retailer price scraper (src/Main.py) and of the      *)
(* earlier single-site lookup (src/main.py).                               *)
(*                                                                         *)
(* Text is a sequence of one-character strings.  Optional[str] values use  *)
(* None, a one-element sequence whose element is no character.             *)
(***************************************************************************)
EXTENDS Integers, Sequences, FiniteSets, TLC

VARIABLES
    \* vn_number: the text, its price, the price of that price
    vn_pc, vn_text, vn_out, vn_again,
    \* http_get: retries, the loop index i, last_err, what was returned or
    \* raised, and the requests and sleeps made so far
    h_pc, h_retries, h_i, h_last_err, h_ret, h_log,
    \* normalize_query_variants: the query and the lists of two calls
    nv_pc, nv_q, nv_first, nv_second,
    \* first_match: the search page's elements and the link returned
    fm_pc, fm_page, fm_link,
    \* parse_product: the query, what the fetch of the product page gave,
    \* the outcome, whether parse_dom_price was called
    pp_pc, pp_query, pp_fetched, pp_out, pp_dom_consulted,
    \* get_product_info (src/main.py): the site and the title
    gp_pc, gp_domain, gp_title,
    \* scrape_all: the query, the index of the adapter at work, results, and
    \* what happened to the adapter before it
    s_pc, s_query, s_i, s_results, s_last,
    \* find_product_url of the adapter at work: the variants, the position of
    \* the two loops, the searches fetched, whether every fetch so far failed,
    \* the link of the last search page, product_url
    f_variants, f_vi, f_ui, f_fetches, f_all_failed, f_last_link, f_link

vnVars == <<vn_pc, vn_text, vn_out, vn_again>>

httpVars == <<h_pc, h_retries, h_i, h_last_err, h_ret, h_log>>

nvVars == <<nv_pc, nv_q, nv_first, nv_second>>

fmVars == <<fm_pc, fm_page, fm_link>>

ppVars == <<pp_pc, pp_query, pp_fetched, pp_out, pp_dom_consulted>>

gpVars == <<gp_pc, gp_domain, gp_title>>

findVars == <<f_variants, f_vi, f_ui, f_fetches, f_all_failed, f_last_link, f_link>>

scVars == <<s_pc, s_query, s_i, s_results, s_last, findVars>>

vars == <<vnVars, httpVars, nvVars, fmVars, ppVars, gpVars, scVars>>

-----------------------------------------------------------------------------
(* Text helpers                                                            *)

None == <<"<None>">>

\* U+20AB, the currency sign of the suffix " ₫"
Dong == "dong"

Digits == {"0", "1", "2", "3", "4", "5", "6", "7", "8", "9"}

\* Python's truthiness of an Optional[str]
Truthy(s) == s # None /\ s # <<>>

IsDigit(c) == c \in Digits

\* \s of the regular expressions
IsSpace(c) == c \in {" ", "\t", "\n"}

\* [.\s] of vn_number's pattern
IsSep(c) == c = "." \/ IsSpace(c)

Min(a, b) == IF a < b THEN a ELSE b

\* t[a..b], empty when a > b
Slice(t, a, b) == IF a > b THEN <<>> ELSE SubSeq(t, a, b)

\* the last n characters of t (t[-n:]) and the rest (t[:-n])
LastN(t, n) == Slice(t, Len(t) - Min(n, Len(t)) + 1, Len(t))
DropLastN(t, n) == Slice(t, 1, Len(t) - Min(n, Len(t)))

RECURSIVE Filter(_, _)
\* the characters of t that belong to keep, in order
Filter(t, keep) ==
    IF t = <<>> THEN <<>>
    ELSE IF Head(t) \in keep THEN <<Head(t)>> \o Filter(Tail(t), keep)
         ELSE Filter(Tail(t), keep)

RECURSIVE Remove(_, _)
\* str.replace(c, "") for a single character c
Remove(t, c) ==
    IF t = <<>> THEN <<>>
    ELSE IF Head(t) = c THEN Remove(Tail(t), c)
         ELSE <<Head(t)>> \o Remove(Tail(t), c)

\* all sequences over S of length at most n
RECURSIVE SeqsUpTo(_, _)
SeqsUpTo(S, n) ==
    IF n = 0 THEN {<<>>}
    ELSE LET shorter == SeqsUpTo(S, n - 1)
         IN  shorter \cup {Append(s, c) : s \in {x \in shorter : Len(x) = n - 1}, c \in S}

-----------------------------------------------------------------------------
(* vn_number                                                               *)

MaxTextLen == 6

RECURSIVE DigitRun(_, _)
\* the number of consecutive digits of t from position p on
DigitRun(t, p) ==
    IF p > Len(t) \/ ~IsDigit(t[p]) THEN 0 ELSE 1 + DigitRun(t, p + 1)

\* one group [.\s]\d{3} starts at position p
HasGroup(t, p) ==
    /\ p + 3 <= Len(t)
    /\ IsSep(t[p])
    /\ IsDigit(t[p + 1]) /\ IsDigit(t[p + 2]) /\ IsDigit(t[p + 3])

RECURSIVE GroupsEnd(_, _)
\* (?:[.\s]\d{3})+ is greedy: the match ending at e takes every further group
GroupsEnd(t, e) == IF HasGroup(t, e + 1) THEN GroupsEnd(t, e + 4) ELSE e

\* the end of the match of \d{1,3}(?:[.\s]\d{3})+ at p, 0 when there is none:
\* the separator must follow a run of one to three digits
GroupedEnd(t, p) ==
    LET r == DigitRun(t, p)
    IN  IF r \in 1..3 /\ HasGroup(t, p + r) THEN GroupsEnd(t, p + r - 1) ELSE 0

\* the end of the match of (\d{1,3}(?:[.\s]\d{3})+|\d+) at p, 0 when none:
\* the first alternative is tried first
PriceMatchEnd(t, p) ==
    IF GroupedEnd(t, p) # 0 THEN GroupedEnd(t, p)
    ELSE IF DigitRun(t, p) > 0 THEN p + DigitRun(t, p) - 1
    ELSE 0

\* re.search: the leftmost position with a match, 0 when none
PriceSearch(t) ==
    LET hits == {p \in 1..Len(t) : PriceMatchEnd(t, p) # 0}
    IN  IF hits = {} THEN 0 ELSE CHOOSE p \in hits : \A q \in hits : p <= q

RECURSIVE GroupPartsFromLeft(_)
\* clusters of three counted from the left instead
GroupPartsFromLeft(digits) ==
    IF Len(digits) <= 3 THEN digits
    ELSE Slice(digits, 1, 3) \o <<".">> \o GroupPartsFromLeft(Slice(digits, 4, Len(digits)))

RECURSIVE GroupParts(_)
\* the while loop: parts, already reversed and joined by "."
GroupParts(digits) ==
    IF Len(digits) <= 3 THEN digits
    ELSE GroupParts(DropLastN(digits, 3)) \o <<".">> \o LastN(digits, 3)

MinPriceDigits == 5

vn_number(text) ==
    IF ~Truthy(text) THEN None
    ELSE LET p == PriceSearch(text)
         IN  IF p = 0 THEN None
             ELSE LET raw    == Remove(Slice(text, p, PriceMatchEnd(text, p)), " ")
                      digits == Filter(raw, Digits)
                  IN  IF digits = <<>> \/ Len(digits) < MinPriceDigits THEN None
                      ELSE GroupParts(digits) \o <<" ", Dong>>

TextAlphabet == {"1", "2", ".", " ", "x"}

VnInit ==
    /\ vn_pc = "start"
    /\ vn_text \in SeqsUpTo(TextAlphabet, MaxTextLen)
    /\ vn_out = None
    /\ vn_again = None

\* price = vn_number(text)
VnNormalize ==
    /\ vn_pc = "start"
    /\ vn_out' = vn_number(vn_text)
    /\ vn_pc' = "normalized"
    /\ UNCHANGED <<vn_text, vn_again>>

\* vn_number applied to a price it produced
VnRenormalize ==
    /\ vn_pc = "normalized"
    /\ vn_out # None
    /\ vn_again' = vn_number(vn_out)
    /\ vn_pc' = "renormalized"
    /\ UNCHANGED <<vn_text, vn_out>>

(* C9: a price produced by vn_number is at least five digits in clusters   *)
(* of three from the right, joined by ".", followed by the currency        *)
(* suffix, and vn_number maps it to itself.                                *)
CanonicalPrice(s) ==
    /\ Len(s) >= 2
    /\ s[Len(s) - 1] = " " /\ s[Len(s)] = Dong
    /\ LET n == Len(s) - 2
       IN  /\ n >= 1
           /\ IsDigit(s[1])
           /\ \A i \in 1..n :
                IF (n - i + 1) % 4 = 0 THEN s[i] = "." ELSE IsDigit(s[i])
           /\ Cardinality({i \in 1..n : IsDigit(s[i])}) >= 5

C9_Idempotent ==
    /\ (vn_pc # "start" /\ vn_out # None) => CanonicalPrice(vn_out)
    /\ vn_pc = "renormalized" => vn_again = vn_out

C9_Witness ==
    /\ vn_pc = "renormalized"
    /\ vn_text = <<"1", "2", " ", "1", "2", "1">>
    /\ vn_out = <<"1", "2", ".", "1", "2", "1", " ", Dong>>

-----------------------------------------------------------------------------
(* http_get                                                                *)

MaxRetries == 3

\* what one SESSION.get can do: answer with a status, or raise
NoError == [raised |-> FALSE, status |-> 0]
NetworkError == [raised |-> TRUE, status |-> 0]
HttpStatus(code) == [raised |-> FALSE, status |-> code]
AttemptOutcomes == {NetworkError} \cup {HttpStatus(c) : c \in {200, 403, 503, 404, 500}}

\* resp.status_code in (200, 403, 503)
AcceptedStatus(o) == ~o.raised /\ o.status \in {200, 403, 503}

\* sleeps after the last request too
ShouldSleepAfterLast(i, retries) == i <= retries

\* if i < retries
ShouldSleep(i, retries) == i < retries

HttpInit ==
    /\ h_pc = "loop"
    /\ h_retries \in 0..MaxRetries
    /\ h_i = 0
    /\ h_last_err = NoError
    /\ h_ret = NoError
    /\ h_log = <<>>

\* one iteration of for i in range(retries + 1)
HttpAttempt ==
    /\ h_pc = "loop"
    /\ h_i <= h_retries
    /\ \E o \in AttemptOutcomes :
         LET got == Append(h_log, [ev |-> "get", i |-> h_i, outcome |-> o])
         IN  IF AcceptedStatus(o)
             THEN /\ h_pc' = "returned"
                  /\ h_ret' = o
                  /\ h_log' = got
                  /\ UNCHANGED <<h_i, h_last_err>>
             ELSE /\ h_last_err' = o
                  /\ h_log' = IF ShouldSleep(h_i, h_retries)
                              THEN Append(got, [ev |-> "sleep", i |-> h_i, outcome |-> NoError])
                              ELSE got
                  /\ h_i' = h_i + 1
                  /\ UNCHANGED <<h_pc, h_ret>>
    /\ UNCHANGED h_retries

\* raise last_err or Exception("Unknown HTTP error")
HttpRaise ==
    /\ h_pc = "loop"
    /\ h_i > h_retries
    /\ h_pc' = "raised"
    /\ h_ret' = IF h_last_err # NoError THEN h_last_err ELSE NetworkError
    /\ UNCHANGED <<h_retries, h_i, h_last_err, h_log>>

(* C4: http_get makes at most retries + 1 requests, returns the response   *)
(* of the first request answered 200, 403 or 503 and makes no request      *)
(* after it, retries after a network error or any other status, raises     *)
(* exactly when none of the retries + 1 requests was accepted, and sleeps  *)
(* only between two requests.                                              *)
HttpGets == {k \in 1..Len(h_log) : h_log[k].ev = "get"}
HttpSleeps == {k \in 1..Len(h_log) : h_log[k].ev = "sleep"}
HttpOk(k) == ~h_log[k].outcome.raised /\ h_log[k].outcome.status \in {200, 403, 503}

C4_HttpGet ==
    /\ Cardinality(HttpGets) <= h_retries + 1
    /\ \A k \in HttpGets : HttpOk(k) => (k = Len(h_log) /\ h_pc = "returned")
    /\ h_pc = "returned" =>
         /\ h_log # <<>> /\ Len(h_log) \in HttpGets /\ HttpOk(Len(h_log))
         /\ h_ret = h_log[Len(h_log)].outcome
    /\ h_pc = "raised" =>
         /\ Cardinality(HttpGets) = h_retries + 1
         /\ \A k \in HttpGets : ~HttpOk(k)
         /\ h_ret.raised \/ h_ret.status \notin {200, 403, 503}
    /\ \A k \in HttpSleeps : k > 1 /\ (k - 1) \in HttpGets /\ ~HttpOk(k - 1)
    /\ \A k \in HttpSleeps : k < Len(h_log) => (k + 1) \in HttpGets
    /\ h_pc \in {"returned", "raised"} => (h_log # <<>> /\ Len(h_log) \in HttpGets)
    /\ h_pc = "loop" => (Len(h_log) \in HttpSleeps <=> (h_log # <<>> /\ h_i <= h_retries))
    /\ h_pc = "loop" => ENABLED (HttpAttempt \/ HttpRaise)

C4_Witness ==
    /\ h_pc = "returned"
    /\ h_retries = 2
    /\ Cardinality(HttpGets) = 3
    /\ Cardinality(HttpSleeps) = 2
    /\ h_ret = HttpStatus(503)

-----------------------------------------------------------------------------
(* normalize_query_variants                                                *)

MaxQueryLen == 6

Letters ==
    {"A", "B", "C", "D", "E", "F", "G", "H", "I", "J", "K", "L", "M",
     "N", "O", "P", "Q", "R", "S", "T", "U", "V", "W", "X", "Y", "Z",
     "a", "b", "c", "d", "e", "f", "g", "h", "i", "j", "k", "l", "m",
     "n", "o", "p", "q", "r", "s", "t", "u", "v", "w", "x", "y", "z"}

\* [A-Za-z]
IsLetter(c) == c \in Letters

RECURSIVE LStrip(_)
LStrip(s) == IF s # <<>> /\ IsSpace(Head(s)) THEN LStrip(Tail(s)) ELSE s

RECURSIVE RStrip(_)
RStrip(s) == IF s # <<>> /\ IsSpace(s[Len(s)]) THEN RStrip(DropLastN(s, 1)) ELSE s

\* str.strip()
Strip(s) == RStrip(LStrip(s))

RECURSIVE CollapseSpaces(_)
\* re.sub(r"\s+", " ", s)
CollapseSpaces(s) ==
    IF s = <<>> THEN <<>>
    ELSE IF IsSpace(Head(s)) THEN <<" ">> \o CollapseSpaces(LStrip(s))
         ELSE <<Head(s)>> \o CollapseSpaces(Tail(s))

RECURSIVE WordLen(_, _)
\* the number of consecutive non-blank characters of s from position p on
WordLen(s, p) == IF p > Len(s) \/ IsSpace(s[p]) THEN 0 ELSE 1 + WordLen(s, p + 1)

RECURSIVE Split(_)
\* str.split()
Split(s) ==
    LET t == LStrip(s)
    IN  IF t = <<>> THEN <<>>
        ELSE <<Slice(t, 1, WordLen(t, 1))>> \o Split(Slice(t, WordLen(t, 1) + 1, Len(t)))

\* digits at positions p and p + 1
TwoDigitsAt(t, p) == p + 1 <= Len(t) /\ IsDigit(t[p]) /\ IsDigit(t[p + 1])

\* re.search(r"[A-Za-z]{1,5}-?\d{2,4}", t): some letter is followed, after
\* an optional hyphen, by two digits
LooksLikeModelCode(t) ==
    \E i \in 1..Len(t) :
        /\ IsLetter(t[i])
        /\ \/ TwoDigitsAt(t, i + 1)
           \/ (i + 1 <= Len(t) /\ t[i + 1] = "-" /\ TwoDigitsAt(t, i + 2))

RECURSIVE LetterRun(_, _)
LetterRun(t, p) ==
    IF p > Len(t) \/ ~IsLetter(t[p]) THEN 0 ELSE 1 + LetterRun(t, p + 1)

\* ([A-Za-z]+)-?(\d+) at p: the letters, then the hyphen when digits follow
\* it, then the digits; there is a match when both runs are non-empty
ModelHyphen(t, p) ==
    LET q == p + LetterRun(t, p)
    IN  IF q <= Len(t) /\ t[q] = "-" /\ DigitRun(t, q + 1) > 0 THEN 1 ELSE 0

ModelDigits(t, p) == DigitRun(t, p + LetterRun(t, p) + ModelHyphen(t, p))

ModelMatches(t, p) == LetterRun(t, p) > 0 /\ ModelDigits(t, p) > 0

RECURSIVE SpacedFrom(_, _)
\* re.sub(r"([A-Za-z]+)-?(\d+)", r"\1 \2", t), from position p on
SpacedFrom(t, p) ==
    IF p > Len(t) THEN <<>>
    ELSE IF ~ModelMatches(t, p) THEN <<t[p]>> \o SpacedFrom(t, p + 1)
    ELSE LET l == LetterRun(t, p)
             h == ModelHyphen(t, p)
             d == ModelDigits(t, p)
         IN  Slice(t, p, p + l - 1) \o <<" ">>
               \o Slice(t, p + l + h, p + l + h + d - 1)
               \o SpacedFrom(t, p + l + h + d)

Spaced(t) == SpacedFrom(t, 1)

\* t.replace("-", "")
Compact(t) == Remove(t, "-")

RECURSIVE ReplaceFrom(_, _, _, _)
\* s.replace(old, new) for a non-empty old, from position p on
ReplaceFrom(s, old, new, p) ==
    IF p > Len(s) THEN <<>>
    ELSE IF p + Len(old) - 1 <= Len(s) /\ Slice(s, p, p + Len(old) - 1) = old
         THEN new \o ReplaceFrom(s, old, new, p + Len(old))
         ELSE <<s[p]>> \o ReplaceFrom(s, old, new, p + 1)

Replace(s, old, new) == ReplaceFrom(s, old, new, 1)

\* base = re.sub(r"\s+", " ", q.strip()).strip()
BaseQuery(q) == Strip(CollapseSpaces(Strip(q)))

RECURSIVE AddedInOrder(_, _, _)
\* the strings the loop adds for tokens[i..], each kept the first time it is
\* seen, after those of seen
AddedInOrder(base, tokens, seen) ==
    IF tokens = <<>> THEN seen
    ELSE LET t == Head(tokens)
             c == Replace(base, t, Compact(t))
             s == Replace(base, t, Spaced(t))
             withC == IF \E k \in 1..Len(seen) : seen[k] = c THEN seen ELSE Append(seen, c)
             withS == IF \E k \in 1..Len(withC) : withC[k] = s THEN withC ELSE Append(withC, s)
         IN  IF LooksLikeModelCode(t) THEN AddedInOrder(base, Tail(tokens), withS)
             ELSE AddedInOrder(base, Tail(tokens), seen)

\* the strings added to variants, in the order of their first add
VariantsAdded(q) == AddedInOrder(BaseQuery(q), Split(BaseQuery(q)), <<BaseQuery(q)>>)

\* variants = {base}; variants.add(...): a set
VariantSet(q) == {VariantsAdded(q)[k] : k \in 1..Len(VariantsAdded(q))}

\* the lists that enumerate the set S once each, in any order
Orderings(S) ==
    {f \in [1..Cardinality(S) -> S] : \A x \in S : \E k \in 1..Cardinality(S) : f[k] = x}

\* list(variants): a set of str iterates in the order of the strings' hashes,
\* which the interpreter draws anew at each start (hash randomization)
normalize_query_variants(q) == Orderings(VariantSet(q))

QueryAlphabet == {"A", "-", "1", " "}

NvInit ==
    /\ nv_pc = "start"
    /\ nv_q \in SeqsUpTo(QueryAlphabet, MaxQueryLen)
    /\ nv_first = <<>>
    /\ nv_second = <<>>

\* the first call of a process: any iteration order of the set
NvCall ==
    /\ nv_pc = "start"
    /\ nv_first' \in normalize_query_variants(nv_q)
    /\ nv_pc' = "called"
    /\ UNCHANGED <<nv_q, nv_second>>

\* a second call in the same process: the same strings hash alike and are
\* added alike, so the set iterates alike
NvCallAgain ==
    /\ nv_pc = "called"
    /\ nv_second' \in {l \in normalize_query_variants(nv_q) : l = nv_first}
    /\ nv_pc' = "called_twice"
    /\ UNCHANGED <<nv_q, nv_first>>

(* C5: the list is non-empty and duplicate-free, starts with the           *)
(* whitespace-normalized query, continues with the derived variants in     *)
(* first-seen order, and is the same on a second call.                     *)
C5_OrderedVariants ==
    /\ nv_pc \in {"called", "called_twice"} =>
         /\ nv_first # <<>>
         /\ \A i, j \in 1..Len(nv_first) : nv_first[i] = nv_first[j] => i = j
         /\ nv_first[1] = BaseQuery(nv_q)
         /\ nv_first = VariantsAdded(nv_q)
    /\ nv_pc = "called_twice" => nv_second = nv_first

-----------------------------------------------------------------------------
(* first_match                                                             *)

MaxAnchors == 3

\* the adapter's search_selectors(), by position in the list
NumSelectors == 2

Selectors == 1..NumSelectors

\* str.startswith
StartsWith(s, prefix) == Len(s) >= Len(prefix) /\ Slice(s, 1, Len(prefix)) = prefix

\* href attributes: empty, a page fragment, a path, an absolute URL
Hrefs == {<<>>, <<"#", "a">>, <<"/", "a">>, <<"h", "t", "t", "p", ":", "b">>}

\* an element of the search page: its href and the selectors it matches
Anchors == [href : Hrefs, sel : SUBSET Selectors]

BaseUrl == <<"h", "t", "t", "p", ":", "s">>

\* urljoin(base, href) for a base without a path
UrlJoin(base, href) ==
    IF href # <<>> /\ Head(href) = "/" THEN base \o href ELSE base \o <<"/">> \o href

\* soup.select_one(css): the first element, in document order, that matches
\* the selector; 0 when there is none
SelectOne(page, css) ==
    LET hits == {i \in 1..Len(page) : css \in page[i].sel}
    IN  IF hits = {} THEN 0 ELSE CHOOSE i \in hits : \A j \in hits : i <= j

\* href if href.startswith("http") else urljoin(base, href)
ResolveHref(href, base) ==
    IF StartsWith(href, <<"h", "t", "t", "p">>) THEN href ELSE UrlJoin(base, href)

\* node and node.get("href") and not node.get("href").startswith("#")
UsableNode(page, node) ==
    /\ node # 0
    /\ Truthy(page[node].href)
    /\ ~StartsWith(page[node].href, <<"#">>)

RECURSIVE FirstMatchFrom(_, _, _)
\* the loop over the selectors, from selector css on
FirstMatchFrom(page, css, base) ==
    IF css > NumSelectors THEN None
    ELSE IF UsableNode(page, SelectOne(page, css))
         THEN ResolveHref(page[SelectOne(page, css)].href, base)
         ELSE FirstMatchFrom(page, css + 1, base)

first_match(page, base) == FirstMatchFrom(page, 1, base)

FmInit ==
    /\ fm_pc = "start"
    /\ fm_page \in SeqsUpTo(Anchors, MaxAnchors)
    /\ fm_link = None

\* link = first_match(soup, self.search_selectors(), self.base_url)
FmRun ==
    /\ fm_pc = "start"
    /\ fm_link' = first_match(fm_page, BaseUrl)
    /\ fm_pc' = "done"
    /\ UNCHANGED fm_page

(* C7: when the page has an element that matches one of the selectors and  *)
(* whose href is present and not a page fragment, first_match returns a    *)
(* URL, and a URL it returns comes from such an element.                   *)
FmEligible == {i \in 1..Len(fm_page) :
                  /\ fm_page[i].sel # {}
                  /\ fm_page[i].href # <<>>
                  /\ ~StartsWith(fm_page[i].href, <<"#">>)}

C7_AnyEligibleAnchor ==
    fm_pc = "done" =>
        /\ FmEligible # {} => fm_link # None
        /\ fm_link # None =>
             \E i \in FmEligible : fm_link = ResolveHref(fm_page[i].href, BaseUrl)

-----------------------------------------------------------------------------
(* JSON-LD values, parse_jsonld_price                                      *)

\* a value json.loads returns: a scalar with the text str() gives it (empty
\* for null, "", 0 and false, the falsy scalars), a dict of key/value
\* entries in document order, or a list
JNull == [t |-> "scalar", s |-> <<>>, kids |-> <<>>]
JStr(s) == [t |-> "scalar", s |-> s, kids |-> <<>>]
KV(k, v) == [k |-> k, v |-> v]
JDict(entries) == [t |-> "dict", s |-> <<>>, kids |-> entries]
RECURSIVE ListEntries(_)
ListEntries(items) ==
    IF items = <<>> THEN <<>> ELSE <<KV("", Head(items))>> \o ListEntries(Tail(items))
JList(items) == [t |-> "list", s |-> <<>>, kids |-> ListEntries(items)]

\* dict.get(key)
JGet(obj, key) ==
    IF obj.t = "dict" /\ \E i \in 1..Len(obj.kids) : obj.kids[i].k = key
    THEN obj.kids[CHOOSE i \in 1..Len(obj.kids) : obj.kids[i].k = key].v
    ELSE JNull

\* a scalar's text; the prices of the pages drawn here are scalars
JText(v) == IF v.t = "scalar" THEN v.s ELSE <<>>

\* offers.get("price") or (isinstance(offers.get("priceSpecification"), dict)
\*                         and offers["priceSpecification"].get("price"))
OfferPrice(offers) ==
    IF Truthy(JText(JGet(offers, "price"))) THEN JText(JGet(offers, "price"))
    ELSE IF JGet(offers, "priceSpecification").t = "dict"
         THEN JText(JGet(JGet(offers, "priceSpecification"), "price"))
         ELSE <<>>

RECURSIVE Scan(_)
RECURSIVE ScanEach(_, _)
\* for v in obj.values() / for it in obj: the first scan that finds a price
ScanEach(kids, i) ==
    IF i > Len(kids) THEN None
    ELSE LET found == Scan(kids[i].v)
         IN  IF Truthy(found) THEN found ELSE ScanEach(kids, i + 1)

\* scan(obj): a dict whose "offers" is a dict with a price answers with
\* vn_number of that price, found or not; otherwise its values are scanned
Scan(obj) ==
    IF obj.t = "dict"
    THEN IF JGet(obj, "offers").t = "dict" /\ Truthy(OfferPrice(JGet(obj, "offers")))
         THEN vn_number(OfferPrice(JGet(obj, "offers")))
         ELSE ScanEach(obj.kids, 1)
    ELSE IF obj.t = "list" THEN ScanEach(obj.kids, 1)
    ELSE None

\* a script tag of type application/ld+json: no text, text json.loads
\* rejects, or a document
EmptyBlock == [kind |-> "empty", data |-> JNull]
InvalidBlock == [kind |-> "invalid", data |-> JNull]
JsonBlock(doc) == [kind |-> "json", data |-> doc]

RECURSIVE JsonldFrom(_, _)
\* the loop over the script tags, from tag i on
JsonldFrom(blocks, i) ==
    IF i > Len(blocks) THEN None
    ELSE LET price == IF blocks[i].kind = "json" THEN Scan(blocks[i].data) ELSE None
         IN  IF Truthy(price) THEN price ELSE JsonldFrom(blocks, i + 1)

parse_jsonld_price(page) == JsonldFrom(page.jsonld, 1)

-----------------------------------------------------------------------------
(* parse_dom_price                                                         *)

\* node.get("content") or node.get("data-price") or node.get_text(" ", strip=True)
NodeVal(node) ==
    IF Truthy(node.content) THEN node.content
    ELSE IF Truthy(node.data_price) THEN node.data_price
    ELSE node.text

RECURSIVE Candidates(_)
\* the prices of the nodes the selectors reach, in the order they are reached
Candidates(nodes) ==
    IF nodes = <<>> THEN <<>>
    ELSE LET p == vn_number(NodeVal(Head(nodes)))
         IN  IF Truthy(p) THEN <<p>> \o Candidates(Tail(nodes))
             ELSE Candidates(Tail(nodes))

RECURSIVE Unique(_, _)
\* the candidates not yet in unique, appended in order
Unique(cands, unique) ==
    IF cands = <<>> THEN unique
    ELSE IF \E k \in 1..Len(unique) : unique[k] = Head(cands)
         THEN Unique(Tail(cands), unique)
         ELSE Unique(Tail(cands), Append(unique, Head(cands)))

parse_dom_price(page) ==
    LET candidates == Candidates(page.nodes)
    IN  IF candidates # <<>> THEN Unique(candidates, <<>>)[1]
        ELSE vn_number(page.text)

-----------------------------------------------------------------------------
(* parse_product                                                           *)

MaxBlocks == 2

MaxNodes == 1

\* notes of a PriceResult
NoPriceNote == <<"Khong tim thay gia ro rang (trang co the render bang JS).">>
NoLinkNote == <<"Khong tim thay link san pham tu trang tim kiem.">>
ErrorNote(e) == <<"Loi: ", e>>

PriceResult(site, title, price, url, note) ==
    [site |-> site, title |-> title, price |-> price, url |-> url, note |-> note]

\* a call that returned a PriceResult, and a call that raised
Returned(r) == [raised |-> FALSE, error |-> "", value |-> r]
Raised(e) == [raised |-> TRUE, error |-> e, value |-> PriceResult("", None, None, None, None)]

\* soup.find("h1"): the text of the first h1, None when the page has none
FirstH1(page) == IF page.h1s = <<>> THEN None ELSE page.h1s[1].text

\* the page title before the heading
PageTitleFirst(page) ==
    IF Truthy(page.title_string) THEN Strip(page.title_string) ELSE FirstH1(page)

\* title = h1.get_text(strip=True) if h1; if not title and soup.title and
\* soup.title.string: title = soup.title.string.strip()
ProductTitle(page) ==
    IF ~Truthy(FirstH1(page)) /\ Truthy(page.title_string) THEN Strip(page.title_string)
    ELSE FirstH1(page)

\* the selector stage before the structured-data stage
DomFirst(page) ==
    LET dom == parse_dom_price(page)
    IN  IF Truthy(dom) THEN [price |-> dom, dom_consulted |-> TRUE]
        ELSE [price |-> parse_jsonld_price(page), dom_consulted |-> TRUE]

\* price = parse_jsonld_price(soup) or parse_dom_price(soup); dom_consulted
\* records whether the right operand of the or was evaluated
ProductPrice(page) ==
    LET jsonld == parse_jsonld_price(page)
    IN  IF Truthy(jsonld) THEN [price |-> jsonld, dom_consulted |-> FALSE]
        ELSE [price |-> parse_dom_price(page), dom_consulted |-> TRUE]

\* parse_product(url): fetched is what http_get(url) and the parser did
parse_product(site, url, fetched) ==
    IF fetched.kind = "fetch_failed" THEN Raised("HTTP error")
    ELSE IF fetched.kind = "parse_failed" THEN Raised("parse error")
    ELSE LET price == ProductPrice(fetched.page).price
         IN  Returned(PriceResult(site, ProductTitle(fetched.page), price, url,
                                  IF Truthy(price) THEN None ELSE NoPriceNote))

\* prices as the sites' structured data and markup give them
JsonPriceA == <<"1", "2", "9", "9", "0">>
JsonPriceB == <<"2", "5", "0", "0", "0", ".", "0">>
ShortPrice == <<"5", "0", "0">>
DomPriceText == <<"7", "7", ".", "0", "0", "0", " ", "d">>

OfferOf(p) == JDict(<<KV("price", JStr(p))>>)
ProductOf(offers) == JDict(<<KV("@type", JStr(<<"P">>)), KV("offers", offers)>>)

JsonDocs ==
    { JDict(<<KV("name", JStr(<<"N">>))>>),
      ProductOf(OfferOf(JsonPriceA)),
      ProductOf(OfferOf(ShortPrice)),
      ProductOf(JDict(<<KV("price", JNull),
                        KV("priceSpecification", OfferOf(JsonPriceB))>>)),
      ProductOf(JDict(<<KV("priceSpecification", OfferOf(ShortPrice))>>)),
      ProductOf(JList(<<OfferOf(JsonPriceA)>>)),
      JList(<<ProductOf(OfferOf(ShortPrice)), ProductOf(OfferOf(JsonPriceB))>>),
      JDict(<<KV("@graph", JList(<<ProductOf(OfferOf(JsonPriceA))>>))>>),
      JDict(<<KV("offers", OfferOf(ShortPrice)),
              KV("isRelatedTo", ProductOf(OfferOf(JsonPriceB)))>>),
      JDict(<<KV("isRelatedTo", ProductOf(OfferOf(JsonPriceA))),
              KV("offers", OfferOf(JsonPriceB))>>) }

Blocks == {EmptyBlock, InvalidBlock} \cup {JsonBlock(d) : d \in JsonDocs}

DomNodes ==
    { [content |-> None, data_price |-> None, text |-> DomPriceText],
      [content |-> <<"6", "6", "0", "0", "0">>, data_price |-> None, text |-> <<>>],
      [content |-> None, data_price |-> ShortPrice, text |-> DomPriceText] }

PageTexts == {<<"x", " ", "3">>, <<"x", " ", "8", "8", " ", "0", "0", "0">>}

MaxH1 == 2

\* an h1 element: its class and its stripped text
H1s == [class : {"", "product-detail-name", "product-title"}, text : {<<>>, <<"H">>}]

TitleStrings == {None, <<" ">>, <<" ", "T", " ">>}

Page(h1s, title_string, jsonld, nodes, text) ==
    [h1s |-> h1s, title_string |-> title_string, jsonld |-> jsonld,
     nodes |-> nodes, text |-> text]

\* pages that vary in their prices
PricePages ==
    {Page(<<[class |-> "", text |-> <<"H">>]>>, None, j, n, t) :
        j \in SeqsUpTo(Blocks, MaxBlocks), n \in SeqsUpTo(DomNodes, MaxNodes),
        t \in PageTexts}

\* pages that vary in their headings and titles
TitlePages ==
    {Page(h, ts, j, <<>>, t) :
        h \in SeqsUpTo(H1s, MaxH1), ts \in TitleStrings,
        j \in {<<>>, <<JsonBlock(ProductOf(OfferOf(JsonPriceA)))>>}, t \in PageTexts}

Fetched(page) == [kind |-> "page", page |-> page]
EmptyPage == Page(<<>>, None, <<>>, <<>>, <<>>)
FetchFailed == [kind |-> "fetch_failed", page |-> EmptyPage]
ParseFailed == [kind |-> "parse_failed", page |-> EmptyPage]

Queries == {<<"t", "v">>, <<"A", "C", "-", "3", "8">>}

ProductUrl == <<"h", "t", "t", "p", ":", "s", "/", "a">>

PpStart(pages, queries) ==
    /\ pp_pc = "start"
    /\ pp_query \in queries
    /\ pp_fetched \in {FetchFailed, ParseFailed} \cup {Fetched(p) : p \in pages}
    /\ pp_out = Raised("")
    /\ pp_dom_consulted = FALSE

PpPriceInit == PpStart(PricePages, {<<"t", "v">>})

PpTitleInit == PpStart(TitlePages, Queries)

\* self.parse_product(product_url)
PpParse ==
    /\ pp_pc = "start"
    /\ pp_out' = parse_product("Pico", ProductUrl, pp_fetched)
    /\ pp_dom_consulted' = (pp_fetched.kind = "page" /\ ProductPrice(pp_fetched.page).dom_consulted)
    /\ pp_pc' = "done"
    /\ UNCHANGED <<pp_query, pp_fetched>>

-----------------------------------------------------------------------------
(* get_product_info of src/main.py: the title                              *)

SupportedSites == {"nguyenkim.com", "hc.com.vn", "eco-mart.vn", "dienmaycholon.vn", "pico.vn"}

\* soup.find("h1", class_=...): the first h1 of that class, 0 when none
FindH1(page, class) ==
    LET hits == {i \in 1..Len(page.h1s) : class = "" \/ page.h1s[i].class = class}
    IN  IF hits = {} THEN 0 ELSE CHOOSE i \in hits : \A j \in hits : i <= j

TitleTag(domain, page) ==
    IF domain = "pico.vn" THEN FindH1(page, "product-detail-name")
    ELSE IF domain = "hc.com.vn" THEN FindH1(page, "product-title")
    ELSE FindH1(page, "")

\* title = title_tag.text.strip() if title_tag else query
InfoTitle(domain, page, query) ==
    IF TitleTag(domain, page) # 0 THEN Strip(page.h1s[TitleTag(domain, page)].text)
    ELSE query

GpIdle == gp_pc = "idle" /\ gp_domain = "" /\ gp_title = None

GpInit == gp_pc = "start" /\ gp_domain \in SupportedSites /\ gp_title = None

\* get_product_info(query, source_key) on the same page
GpTitle ==
    /\ gp_pc = "start"
    /\ pp_fetched.kind = "page"
    /\ gp_title' = InfoTitle(gp_domain, pp_fetched.page, pp_query)
    /\ gp_pc' = "done"
    /\ UNCHANGED gp_domain

-----------------------------------------------------------------------------
(* Claims about parse_product                                              *)

RECURSIVE OfferPricesIn(_)
\* the prices of the offers objects anywhere in a JSON-LD document: of every
\* dict whose "offers" is a dict with a price or a priceSpecification price
OfferPricesIn(v) ==
    (IF v.t = "dict" /\ JGet(v, "offers").t = "dict" /\ Truthy(OfferPrice(JGet(v, "offers")))
     THEN {OfferPrice(JGet(v, "offers"))} ELSE {})
    \cup UNION {OfferPricesIn(v.kids[i].v) : i \in 1..Len(v.kids)}

PpPage == pp_fetched.page

PpParsed == pp_pc = "done" /\ pp_fetched.kind = "page"

PpJsonDocs == {PpPage.jsonld[i].data : i \in {k \in 1..Len(PpPage.jsonld) : PpPage.jsonld[k].kind = "json"}}

PpOfferPrices == UNION {OfferPricesIn(d) : d \in PpJsonDocs}

\* the page has a price that the selectors or the text fallback reach
PpDomReachable ==
    \/ \E i \in 1..Len(PpPage.nodes) : vn_number(NodeVal(PpPage.nodes[i])) # None
    \/ vn_number(PpPage.text) # None

(* C8 as stated: a page with a JSON-LD offers price and a price reachable  *)
(* by selectors or text reports the structured-data price, and             *)
(* parse_dom_price is called only when no offers price was found.          *)
C8_StructuredFirst ==
    PpParsed =>
        /\ (PpOfferPrices # {} /\ PpDomReachable) =>
             /\ ~pp_dom_consulted
             /\ pp_out.value.price \in {vn_number(p) : p \in PpOfferPrices}
        /\ pp_dom_consulted => PpOfferPrices = {}

(* C8 amended: when some JSON-LD block carries offers prices and vn_number *)
(* accepts all of them (five digits or more), parse_product reports a      *)
(* normalized offers price and never calls parse_dom_price, whatever the   *)
(* selectors or the text reach; a price reported without parse_dom_price   *)
(* is a normalized offers price of the page.                               *)
C8_NormalizedStructuredFirst ==
    PpParsed =>
        /\ (\E d \in PpJsonDocs :
               /\ OfferPricesIn(d) # {}
               /\ \A p \in OfferPricesIn(d) : vn_number(p) # None)
           => /\ ~pp_dom_consulted
              /\ pp_out.value.price # None
        /\ ~pp_dom_consulted =>
              /\ pp_out.value.price # None
              /\ pp_out.value.price \in {vn_number(p) : p \in PpOfferPrices}
              /\ pp_out.value.note = None

C8_Witness ==
    /\ PpParsed
    /\ PpPage.jsonld = <<JsonBlock(ProductOf(OfferOf(ShortPrice))),
                         JsonBlock(ProductOf(OfferOf(JsonPriceA)))>>
    /\ PpPage.nodes = <<[content |-> None, data_price |-> None, text |-> DomPriceText]>>
    /\ pp_out.value.price = <<"1", "2", ".", "9", "9", "0", " ", Dong>>
    /\ ~pp_dom_consulted

(* C10 as stated: the title of a result built from a fetched product page  *)
(* is never empty: the h1 text, else the page title, else the query.       *)
C10_TitleNeverEmpty ==
    PpParsed =>
        /\ Truthy(pp_out.value.title)
        /\ pp_out.value.title =
             (IF Truthy(FirstH1(PpPage)) THEN FirstH1(PpPage)
              ELSE IF Truthy(PpPage.title_string) THEN Strip(PpPage.title_string)
              ELSE pp_query)

(* C10 amended: parse_product's title is the first h1's text when that is  *)
(* not empty, else the stripped page title when the page has one, else     *)
(* none or empty, never the query; get_product_info (src/main.py) uses the *)
(* text of the first h1 (of the site's class on pico.vn and hc.com.vn),    *)
(* else the query, never the page title.                                   *)
GpClass ==
    IF gp_domain = "pico.vn" THEN "product-detail-name"
    ELSE IF gp_domain = "hc.com.vn" THEN "product-title"
    ELSE ""

GpHeadings == {i \in 1..Len(PpPage.h1s) : GpClass = "" \/ PpPage.h1s[i].class = GpClass}

C10_TitleOrNone ==
    /\ PpParsed =>
         LET h == PpPage.h1s
             t == pp_out.value.title
         IN  /\ (h # <<>> /\ h[1].text # <<>>) => t = h[1].text
             /\ (h = <<>> \/ h[1].text = <<>>) =>
                  IF PpPage.title_string # None
                  THEN t = Strip(PpPage.title_string)
                  ELSE ~Truthy(t) /\ (h = <<>> <=> t = None)
    /\ gp_pc = "done" =>
         IF GpHeadings = {} THEN gp_title = pp_query
         ELSE \E i \in GpHeadings :
                 /\ \A j \in GpHeadings : i <= j
                 /\ gp_title = PpPage.h1s[i].text

C10_Witness ==
    /\ PpParsed
    /\ gp_pc = "done"
    /\ PpPage.h1s = <<>>
    /\ PpPage.title_string = None
    /\ pp_out.value.title = None
    /\ gp_title = pp_query

-----------------------------------------------------------------------------
(* SCRAPERS, find_product_url, get_price, scrape_all                       *)

\* an adapter: site_name, base_url and the number of URLs search_urls gives
Scraper(site_name, base_url, n_urls) ==
    [site_name |-> site_name, base_url |-> base_url, n_urls |-> n_urls]

SCRAPERS ==
    << Scraper("Nguyen Kim", <<"h", "t", "t", "p", ":", "n">>, 1),
       Scraper("Dien May Cho Lon", <<"h", "t", "t", "p", ":", "d">>, 1),
       Scraper("Pico", <<"h", "t", "t", "p", ":", "p">>, 1),
       Scraper("HC", <<"h", "t", "t", "p", ":", "h">>, 2),
       Scraper("Eco-mart", <<"h", "t", "t", "p", ":", "e">>, 1) >>

\* what http_get(url).text, BeautifulSoup and first_match meet on a search
\* URL: http_get raises, the parser raises, or there is a page of elements
SearchFailed == [kind |-> "fetch_failed", page |-> <<>>]
SearchParseFailed == [kind |-> "parse_failed", page |-> <<>>]
SearchFetched(page) == [kind |-> "page", page |-> page]

SearchPages ==
    { <<[href |-> <<"#", "a">>, sel |-> {1}]>>,
      <<[href |-> <<"#", "a">>, sel |-> {1}], [href |-> <<"/", "a">>, sel |-> {2}]>> }

SearchFetches == {SearchFailed, SearchParseFailed} \cup {SearchFetched(p) : p \in SearchPages}

\* the body of the inner loop without its except clause
SearchUncaught(o, base) ==
    IF o.kind = "page" THEN [raised |-> FALSE, link |-> first_match(o.page, base)]
    ELSE [raised |-> TRUE, link |-> None]

\* try: http_get, BeautifulSoup, first_match; except Exception: logger.info
SearchIteration(o, base) ==
    IF o.kind = "page" THEN [raised |-> FALSE, link |-> first_match(o.page, base)]
    ELSE [raised |-> FALSE, link |-> None]

\* the product pages of the runs of scrape_all
PricedPage ==
    Page(<<[class |-> "", text |-> <<"H">>]>>, None,
         <<JsonBlock(ProductOf(OfferOf(JsonPriceA)))>>, <<>>, <<"x", " ", "3">>)
UnpricedPage == Page(<<>>, None, <<>>, <<>>, <<"x", " ", "3">>)

ProductFetches == {FetchFailed, ParseFailed, Fetched(PricedPage), Fetched(UnpricedPage)}

\* the result of the missing link without its note
NoLinkSilent(site) == PriceResult(site, None, None, None, None)

\* return PriceResult(self.site_name, None, None, None, note=...)
NoLinkResult(site) == PriceResult(site, None, None, None, NoLinkNote)

\* the exception leaves scrape_all
ScrapeUncaught(site, out) == out

\* try: s.get_price(product_name)
\* except Exception as e: PriceResult(site=s.site_name, ..., note=f"Lỗi: {e}")
ScrapeTry(site, out) ==
    IF out.raised THEN Returned(PriceResult(site, None, None, None, ErrorNote(out.error)))
    ELSE out

\* the result put in front
PrependResult(results, r) == <<r>> \o results

\* results.append(...)
AppendResult(results, r) == Append(results, r)

PipelineQueries == {<<"t", "v">>, <<"A", "1", "1">>}

FindIdle ==
    /\ f_variants = <<>> /\ f_vi = 0 /\ f_ui = 0 /\ f_fetches = 0
    /\ f_all_failed = FALSE /\ f_last_link = None /\ f_link = None

NoSite == [kind |-> "none", all_failed |-> FALSE]

ScrapeInit ==
    /\ s_pc = "loop"
    /\ s_query \in PipelineQueries
    /\ s_i = 1
    /\ s_results = <<>>
    /\ s_last = NoSite
    /\ FindIdle

\* the end of one iteration of for s in SCRAPERS: get_price ended with out
\* after kind happened; the next iteration starts with find_product_url idle
FinishSite(out, kind, all_failed) ==
    LET caught == ScrapeTry(SCRAPERS[s_i].site_name, out)
    IN  /\ IF caught.raised
           THEN s_pc' = "raised" /\ UNCHANGED <<s_i, s_results>>
           ELSE /\ s_results' = AppendResult(s_results, caught.value)
                /\ s_i' = s_i + 1
                /\ s_pc' = "loop"
        /\ s_last' = [kind |-> kind, all_failed |-> all_failed]
        /\ f_variants' = <<>> /\ f_vi' = 0 /\ f_ui' = 0 /\ f_fetches' = 0
        /\ f_all_failed' = FALSE /\ f_last_link' = None /\ f_link' = None
        /\ UNCHANGED s_query

\* s.get_price(product_name) enters find_product_url: the variants
GetPriceBegin ==
    /\ s_pc = "loop"
    /\ s_i <= Len(SCRAPERS)
    /\ f_variants' \in normalize_query_variants(s_query)
    /\ f_vi' = 1 /\ f_ui' = 1 /\ f_fetches' = 0
    /\ f_all_failed' = TRUE /\ f_last_link' = None /\ f_link' = None
    /\ s_pc' = "find"
    /\ UNCHANGED <<s_query, s_i, s_results, s_last>>

\* one iteration of for url in self.search_urls(variant)
FindFetch ==
    /\ s_pc = "find"
    /\ f_vi <= Len(f_variants)
    /\ \E o \in SearchFetches :
         LET it == SearchIteration(o, SCRAPERS[s_i].base_url)
             failed == f_all_failed /\ o.kind = "fetch_failed"
         IN  IF it.raised
             THEN FinishSite(Raised("search error"), "search_raised", failed)
             ELSE /\ f_fetches' = f_fetches + 1
                  /\ f_all_failed' = failed
                  /\ f_last_link' = it.link
                  /\ IF Truthy(it.link)
                     THEN /\ f_link' = it.link
                          /\ s_pc' = "parse"
                          /\ UNCHANGED <<f_vi, f_ui>>
                     ELSE /\ IF f_ui < SCRAPERS[s_i].n_urls
                             THEN f_ui' = f_ui + 1 /\ f_vi' = f_vi
                             ELSE f_ui' = 1 /\ f_vi' = f_vi + 1
                          /\ UNCHANGED <<f_link, s_pc>>
                  /\ UNCHANGED <<s_query, s_i, s_results, s_last, f_variants>>

\* find_product_url returns None; get_price: if not product_url
FindExhausted ==
    /\ s_pc = "find"
    /\ f_vi > Len(f_variants)
    /\ FinishSite(Returned(NoLinkResult(SCRAPERS[s_i].site_name)), "no_link", f_all_failed)

\* return self.parse_product(product_url)
ParseProductPage ==
    /\ s_pc = "parse"
    /\ \E fetched \in ProductFetches :
         FinishSite(parse_product(SCRAPERS[s_i].site_name, f_link, fetched),
                    fetched.kind, f_all_failed /\ fetched.kind = "fetch_failed")

\* return results
ScrapeReturn ==
    /\ s_pc = "loop"
    /\ s_i > Len(SCRAPERS)
    /\ s_pc' = "done"
    /\ UNCHANGED <<s_query, s_i, s_results, s_last, findVars>>

-----------------------------------------------------------------------------
(* Claims about scrape_all and find_product_url                            *)

LastResult == s_results[Len(s_results)]

SiteAtWork == SCRAPERS[s_i]

OnlySiteAndNote(r, site) ==
    /\ r.site = site
    /\ r.title = None /\ r.price = None /\ r.url = None
    /\ Truthy(r.note)

\* C1: whatever each site does (success, no link, fetch failure, parse
\* failure), scrape_all hands back one PriceResult per entry of SCRAPERS and
\* the i-th result bears the i-th adapter's site_name: while the loop runs the
\* results are those of the adapters already visited, in order, and at the
\* return there are exactly Len(SCRAPERS) of them.
C1_OneResultPerAdapter ==
    /\ s_pc # "raised"
    /\ Len(s_results) = s_i - 1
    /\ \A k \in 1..Len(s_results) : s_results[k].site = SCRAPERS[k].site_name
    /\ s_pc = "done" => Len(s_results) = Len(SCRAPERS)

\* scrape_all has returned and every site failed
C1_Witness ==
    /\ s_pc = "done"
    /\ Len(s_results) = Len(SCRAPERS)
    /\ \A k \in 1..Len(s_results) : s_results[k].price = None
    /\ \E k \in 1..Len(s_results) : s_results[k].note = ErrorNote("HTTP error")
    /\ \E k \in 1..Len(s_results) : s_results[k].note = NoLinkNote

\* C2: failure isolation: no failure of one adapter leaves scrape_all as an
\* exception, the result of an adapter that failed (no link, product page
\* not fetched, parser raised) has its site name and a note and no title,
\* price or url, the results already collected are never changed by a later
\* adapter, and the loop still reaches its return with every adapter visited.
C2_FailureIsolation ==
    /\ [](/\ s_pc # "raised"
          /\ s_last.kind \in {"no_link", "fetch_failed", "parse_failed", "search_raised"}
               => /\ Len(s_results) >= 1
                  /\ OnlySiteAndNote(LastResult, SCRAPERS[Len(s_results)].site_name)
          /\ s_pc = "done" => Len(s_results) = Len(SCRAPERS))
    /\ [][/\ Len(s_results') >= Len(s_results)
          /\ \A k \in 1..Len(s_results) : s_results'[k] = s_results[k]]_vars

\* two adapters failed, by fetch and by parser, and a later one has a price
C2_Witness ==
    /\ s_pc = "done"
    /\ s_results[1].note = ErrorNote("HTTP error")
    /\ s_results[2].note = ErrorNote("parse error")
    /\ s_results[3].note = NoLinkNote
    /\ Truthy(s_results[4].price)
    /\ s_results[5].note = NoPriceNote

\* C3: when every fetch addressed to a site failed, the site's result has no
\* price and a note that tells of the fetch failure, not the note of the
\* missing product link.
C3_FetchFailureNote ==
    (Len(s_results) >= 1 /\ s_last.all_failed)
        => /\ LastResult.price = None
           /\ LastResult.note = ErrorNote("HTTP error")
           /\ LastResult.note # NoLinkNote

\* C6: find_product_url never raises; while it searches, every (variant,
\* search URL) pair before the position was fetched once, in order, and none
\* gave a link, failures included; once a page gives a link that link is
\* product_url, it is the link of the last page fetched and no search URL is
\* fetched after it; with every pair fetched and no link it returns None and
\* get_price answers with the result of the missing link.
C6_FindProductUrl ==
    /\ [](/\ s_last.kind # "search_raised"
          /\ s_pc = "find"
               => /\ f_ui \in 1..SiteAtWork.n_urls
                  /\ f_vi \in 1..(Len(f_variants) + 1)
                  /\ f_fetches = (f_vi - 1) * SiteAtWork.n_urls + (f_ui - 1)
                  /\ ~Truthy(f_last_link)
                  /\ ~Truthy(f_link)
          /\ s_pc = "parse"
               => /\ Truthy(f_link)
                  /\ f_link = f_last_link
                  /\ f_vi \in 1..Len(f_variants)
                  /\ f_fetches = (f_vi - 1) * SiteAtWork.n_urls + f_ui)
    /\ [][/\ s_pc = "parse" => f_fetches' <= f_fetches
          /\ (s_pc = "find" /\ f_vi > Len(f_variants))
               => s_results' = Append(s_results, PriceResult(SiteAtWork.site_name,
                                          None, None, None, NoLinkNote))]_vars

\* HC, two search URLs: three fetches failed one after the other and the
\* search goes on with the second URL of the second variant
C6_Witness ==
    /\ s_pc = "find"
    /\ s_i = 4
    /\ f_all_failed
    /\ f_fetches = 3
    /\ f_vi = 2 /\ f_ui = 2

\* C11: in every result scrape_all has collected, the price is None exactly
\* when a note is present: a result with a price is a non-empty price with
\* no note, a result without a price has a non-empty note; and the url is
\* None in every result of a missing link or of a caught error, that is, a
\* url is found only in results of a parsed product page (priced, or with
\* the note of the price not located).
C11_PriceXorNote ==
    /\ \A k \in 1..Len(s_results) :
         LET r == s_results[k]
         IN  /\ r.price = None <=> r.note # None
             /\ r.price # None => Truthy(r.price)
             /\ r.price = None => Truthy(r.note)
             /\ r.url # None => r.note \in {None, NoPriceNote}
             /\ r.note \in {NoLinkNote, ErrorNote("HTTP error"), ErrorNote("parse error")}
                  => r.url = None
    /\ (Len(s_results) >= 1 /\ s_last.kind \in {"no_link", "fetch_failed", "parse_failed"})
         => LastResult.url = None /\ LastResult.price = None /\ Truthy(LastResult.note)
    /\ (Len(s_results) >= 1 /\ s_last.kind = "page")
         => LastResult.url # None

\* a return with a priced result, a page without a price, a missing link
\* and both kinds of caught error
C11_Witness ==
    /\ s_pc = "done"
    /\ Truthy(s_results[1].price) /\ s_results[1].note = None /\ Truthy(s_results[1].url)
    /\ s_results[2].price = None /\ s_results[2].note = NoPriceNote /\ Truthy(s_results[2].url)
    /\ s_results[3].note = NoLinkNote /\ s_results[3].url = None
    /\ s_results[4].note = ErrorNote("HTTP error") /\ s_results[4].url = None
    /\ s_results[5].note = ErrorNote("parse error") /\ s_results[5].url = None

-----------------------------------------------------------------------------
(* Specifications: one per component, the other components' variables idle *)

VnIdle ==
    /\ vn_pc = "idle" /\ vn_text = <<>> /\ vn_out = None /\ vn_again = None

HttpIdle ==
    /\ h_pc = "idle" /\ h_retries = 0 /\ h_i = 0
    /\ h_last_err = NoError /\ h_ret = NoError /\ h_log = <<>>

NvIdle ==
    /\ nv_pc = "idle" /\ nv_q = <<>> /\ nv_first = <<>> /\ nv_second = <<>>

FmIdle ==
    /\ fm_pc = "idle" /\ fm_page = <<>> /\ fm_link = None

PpIdle ==
    /\ pp_pc = "idle" /\ pp_query = <<>> /\ pp_fetched = FetchFailed
    /\ pp_out = Raised("") /\ pp_dom_consulted = FALSE

ScrapeIdle ==
    /\ s_pc = "idle" /\ s_query = <<>> /\ s_i = 0 /\ s_results = <<>>
    /\ s_last = NoSite /\ FindIdle

Init ==
    /\ VnIdle
    /\ HttpIdle
    /\ NvIdle
    /\ FmIdle
    /\ PpIdle
    /\ GpIdle
    /\ ScrapeInit

Next ==
    \/ GetPriceBegin /\ UNCHANGED <<vnVars, httpVars, nvVars, fmVars, ppVars, gpVars>>
    \/ FindFetch /\ UNCHANGED <<vnVars, httpVars, nvVars, fmVars, ppVars, gpVars>>
    \/ FindExhausted /\ UNCHANGED <<vnVars, httpVars, nvVars, fmVars, ppVars, gpVars>>
    \/ ParseProductPage /\ UNCHANGED <<vnVars, httpVars, nvVars, fmVars, ppVars, gpVars>>
    \/ ScrapeReturn /\ UNCHANGED <<vnVars, httpVars, nvVars, fmVars, ppVars, gpVars>>

Spec == Init /\ [][Next]_vars

VnSpecInit ==
    /\ VnInit
    /\ HttpIdle
    /\ NvIdle
    /\ FmIdle
    /\ PpIdle
    /\ GpIdle
    /\ ScrapeIdle

VnNext ==
    \/ VnNormalize /\ UNCHANGED <<httpVars, nvVars, fmVars, ppVars, gpVars, scVars>>
    \/ VnRenormalize /\ UNCHANGED <<httpVars, nvVars, fmVars, ppVars, gpVars, scVars>>

SpecVn == VnSpecInit /\ [][VnNext]_vars

HttpSpecInit ==
    /\ VnIdle
    /\ HttpInit
    /\ NvIdle
    /\ FmIdle
    /\ PpIdle
    /\ GpIdle
    /\ ScrapeIdle

HttpNext ==
    \/ HttpAttempt /\ UNCHANGED <<vnVars, nvVars, fmVars, ppVars, gpVars, scVars>>
    \/ HttpRaise /\ UNCHANGED <<vnVars, nvVars, fmVars, ppVars, gpVars, scVars>>

SpecHttp == HttpSpecInit /\ [][HttpNext]_vars

NvSpecInit ==
    /\ VnIdle
    /\ HttpIdle
    /\ NvInit
    /\ FmIdle
    /\ PpIdle
    /\ GpIdle
    /\ ScrapeIdle

VariantsNext ==
    \/ NvCall /\ UNCHANGED <<vnVars, httpVars, fmVars, ppVars, gpVars, scVars>>
    \/ NvCallAgain /\ UNCHANGED <<vnVars, httpVars, fmVars, ppVars, gpVars, scVars>>

SpecVariants == NvSpecInit /\ [][VariantsNext]_vars

FmSpecInit ==
    /\ VnIdle
    /\ HttpIdle
    /\ NvIdle
    /\ FmInit
    /\ PpIdle
    /\ GpIdle
    /\ ScrapeIdle

MatchNext ==
    \/ FmRun /\ UNCHANGED <<vnVars, httpVars, nvVars, ppVars, gpVars, scVars>>

SpecMatch == FmSpecInit /\ [][MatchNext]_vars

PriceSpecInit ==
    /\ VnIdle
    /\ HttpIdle
    /\ NvIdle
    /\ FmIdle
    /\ PpPriceInit
    /\ GpIdle
    /\ ScrapeIdle

PriceNext ==
    \/ PpParse /\ UNCHANGED <<vnVars, httpVars, nvVars, fmVars, gpVars, scVars>>

SpecPrice == PriceSpecInit /\ [][PriceNext]_vars

TitleSpecInit ==
    /\ VnIdle
    /\ HttpIdle
    /\ NvIdle
    /\ FmIdle
    /\ PpTitleInit
    /\ GpInit
    /\ ScrapeIdle

TitleNext ==
    \/ PpParse /\ UNCHANGED <<vnVars, httpVars, nvVars, fmVars, gpVars, scVars>>
    \/ GpTitle /\ UNCHANGED <<vnVars, httpVars, nvVars, fmVars, ppVars, scVars>>

SpecTitle == TitleSpecInit /\ [][TitleNext]_vars

====
